---- MODULE Spec2Model ----
(***************************************************************************)
(* manga-agent: the comic wizard (src/src/index.tsx) driving the comic     *)
(* pipeline (src/src/comic-generator.ts) over the schemas of               *)
(* src/unnamed/part_002 (schema.ts).                                       *)
(*                                                                         *)
(* One state machine: the React state of App, the position of the one      *)
(* generateComic invocation between two of its awaits, and the files it    *)
(* writes.  The language-model service, the image service, the HTTPS       *)
(* download and the filesystem answer nondeterministically.                *)
(***************************************************************************)
EXTENDS Integers, Sequences, FiniteSets, TLC

(***************************************************************************)
(* Bounds of the model.                                                    *)
(***************************************************************************)
\* longest text typed into a TextInput
MaxLen == 2
\* longest panel list the language model returns
MaxPanels == 2
\* generateComic invocations per session
MaxRuns == 2
\* generations of the image-editing UI per session
MaxGenerations == 3

(***************************************************************************)
(* Values.  A text is a sequence of one-character strings.  An optional    *)
(* field (result?, error?, artStyle?, genre?) is <<>> when undefined and   *)
(* <<v>> when set.  A JavaScript number is a record so that NaN is a value.*)
(***************************************************************************)
Undefined == <<>>
Some(v) == <<v>>

Num(n) == [nan |-> FALSE, val |-> n]
NaN == [nan |-> TRUE, val |-> 0]

Digits == {"0", "2"}
\* keys of the options screen: digits, a sign, a blank, a letter
OptionChars == Digits \cup {"-", " ", "a"}
\* keys of the prompt and done screens (free text)
PromptChars == {"a"}

DigitVal(c) == IF c = "2" THEN 2 ELSE 0

MathMin(a, b) ==
  IF a.nan \/ b.nan THEN NaN ELSE IF a.val <= b.val THEN a ELSE b

MathMax(a, b) ==
  IF a.nan \/ b.nan THEN NaN ELSE IF a.val >= b.val THEN a ELSE b

RECURSIVE TrimStart(_)
TrimStart(s) ==
  IF s # <<>> /\ Head(s) = " " THEN TrimStart(Tail(s)) ELSE s

RECURSIVE TrimEnd(_)
TrimEnd(s) ==
  IF s # <<>> /\ s[Len(s)] = " " THEN TrimEnd(SubSeq(s, 1, Len(s) - 1)) ELSE s

\* String.prototype.trim
trim(s) == TrimEnd(TrimStart(s))

\* the longest prefix of decimal digits of s
RECURSIVE DigitPrefix(_)
DigitPrefix(s) ==
  IF s # <<>> /\ Head(s) \in Digits
    THEN <<Head(s)>> \o DigitPrefix(Tail(s))
    ELSE <<>>

RECURSIVE DecimalValue(_, _)
DecimalValue(ds, acc) ==
  IF ds = <<>> THEN acc ELSE DecimalValue(Tail(ds), 10 * acc + DigitVal(Head(ds)))

\* parseInt(s) without a radix: leading blanks, an optional sign, then the
\* longest run of decimal digits; NaN when there is no digit.
parseInt(s) ==
  LET t == TrimStart(s)
      neg == t # <<>> /\ Head(t) = "-"
      body == IF neg THEN Tail(t) ELSE t
      ds == DigitPrefix(body)
  IN IF ds = <<>> THEN NaN
     ELSE Num((IF neg THEN -1 ELSE 1) * DecimalValue(ds, 0))

DefaultPanelCount == 4
MinPanelCount == 1
MaxPanelCount == 12

\* index.tsx:139 and :142, the panel count handleOptionsSubmit stores
\* (a trimmed empty text is falsy).
OptionsPanelCount(value) ==
  LET panelCount == IF trim(value) # <<>> THEN parseInt(trim(value))
                    ELSE Num(DefaultPanelCount)
  IN MathMax(Num(MinPanelCount), MathMin(Num(MaxPanelCount), panelCount))


(***************************************************************************)
(* Errors.  A message is its fixed text and the status code interpolated   *)
(* into it (0 when the message has none).                                  *)
(***************************************************************************)
Msg(text, status) == [text |-> text, status |-> status]
Error(message) == [isError |-> TRUE, message |-> message]

\* comic-generator.ts:67
DownloadStatusError(statusCode) == Error(Msg("Failed to download image: ", statusCode))
\* comic-generator.ts:106
InvalidOutputError == Error(Msg("Invalid output from Replicate API", 0))
\* comic-generator.ts:103, .url() or .href of a value that has none
UrlTypeError == Error(Msg("TypeError: Cannot read properties of undefined (reading 'url')", 0))
\* thrown by generateObject / generateText / replicate.run / https / fs
StoryErrors == {Error(Msg("No object generated: response did not match schema.", 0)),
                Error(Msg("Cannot connect to API", 0))}
DetailError == Error(Msg("Cannot connect to API", 0))
ReplicateError == Error(Msg("Request to Replicate failed", 0))
RequestError == Error(Msg("socket hang up", 0))
\* fs.mkdirSync, fs.writeFileSync and the write stream
MkdirError == Error(Msg("EACCES: permission denied, mkdir", 0))
WriteFileError == Error(Msg("ENOSPC: no space left on device, write", 0))
StreamError == Error(Msg("EIO: i/o error, write", 0))

(***************************************************************************)
(* What the collaborators can answer.                                      *)
(***************************************************************************)
\* the ids the language model gives its panels
PanelIds == {1, 2}

\* ComicPanelSchema: id is any number; the text fields are opaque here.
\* ComicStorySchema: panels is any array of panels (no length, no order,
\* no uniqueness constraint).
RECURSIVE SeqsUpTo(_, _)
SeqsUpTo(S, n) ==
  IF n = 0 THEN {<<>>}
  ELSE LET shorter == SeqsUpTo(S, n - 1)
       IN shorter \cup {Append(q, x) : q \in shorter, x \in S}

ComicPanelSchema == [id : PanelIds]
ComicStorySchema == [panels : SeqsUpTo(ComicPanelSchema, MaxPanels)]

\* comic-generator.ts:37-58: the text generateText returns.  Nothing relates
\* the texts of two calls, so each is named by the call that produced it:
\* the n-th detailing call of invocation r
Description(r, n) == [run |-> r, call |-> n]

\* what replicate.run resolves to: a FileOutput whose url() is a URL, a value
\* without url(), or a value whose url() has no string href
FluxOutputs == {"file", "no_url", "bad_href"}

HttpStatuses == {200, 404, 503}

(***************************************************************************)
(* Paths and directories of the workspace.                                 *)
(***************************************************************************)
Dir(kind, r) == [dir |-> kind, run |-> r]
WorkspaceDir == Dir("workspace", 0)
ComicsDir == Dir("comics", 0)
ImagesDir == Dir("images", 0)
\* comic-generator.ts:188-189, comics/comic-<timestamp>: the clock advances
\* between two invocations, so the invocation number stands for the timestamp
ComicDir(r) == Dir("comic", r)

StoryPath(r) == [dir |-> "comic", run |-> r, name |-> "story.json", id |-> 0]
PanelPath(r, id) == [dir |-> "comic", run |-> r, name |-> "panel-<id>.json", id |-> id]
ResultPath(r) == [dir |-> "comic", run |-> r, name |-> "result.json", id |-> 0]
\* comic-generator.ts:110-111, images/panel-<id>.jpg: no run in the name
ImagePath(id) == [dir |-> "images", run |-> 0, name |-> "panel-<id>.jpg", id |-> id]

Put(f, k, v) == [x \in DOMAIN f \cup {k} |-> IF x = k THEN v ELSE f[x]]
Remove(f, k) == [x \in DOMAIN f \ {k} |-> f[x]]

VARIABLES
  state,                \* index.tsx App: the AppState held by useState
  effectPending,        \* index.tsx:148-177: the effect is scheduled to call processComic
  pc,                   \* where the latest generateComic invocation stands
  request,              \* the ComicGenerationRequest of the invocation in flight
  story,                \* generateComic: story
  i,                    \* generateComic: 1-based position of the loop
  generatedImages,      \* generateComic: generatedImages
  detailedDescription,  \* generateComic: detailedDescription (loop body)
  output,               \* generateImageWithFlux: what replicate.run resolved to
  response,             \* downloadImage: response.statusCode
  thrown,               \* the error generateComic rejected with
  run,                  \* number of generateComic invocations so far
  dirs,                 \* directories on disk
  files,                \* files on disk: path -> [by, data]
  unlinkPending,        \* image ids whose fs.unlink has not completed
  calls,                \* external calls issued and answered, latest invocation
  subject,              \* round trip: the story whose files are written
  argument,             \* round trip: the value handed to JSON.stringify
  written,              \* round trip: the JSON document fs.writeFileSync wrote
  readBack,             \* round trip: what JSON.parse makes of the document
  editor,               \* part_000 App: the AppState held by useState
  editorEffect,         \* part_000:139-175: the effect is scheduled to call processImage
  editorPc,             \* part_000: where the latest processImage stands
  prediction,           \* part_000: the input of the replicate.run in flight
  started,              \* part_000: replicate.run calls issued so far
  succeeded             \* part_000: the href of the latest output replicate.run resolved to

vars == <<state, effectPending, pc, request, story, i, generatedImages,
          detailedDescription, output, response, thrown, run, dirs, files,
          unlinkPending, calls, subject, argument, written, readBack,
          editor, editorEffect, editorPc, prediction, started, succeeded>>

imageEditor == <<editor, editorEffect, editorPc, prediction, started, succeeded>>

ui == <<state, effectPending>>
roundTrip == <<subject, argument, written, readBack>>

locals == <<story, i, generatedImages, detailedDescription, output, response>>
disk == <<dirs, files, unlinkPending>>
comic == <<ui, pc, request, locals, thrown, run, disk, calls>>

\* index.tsx:122-127
InitialState ==
  [step |-> "prompt", prompt |-> <<>>, currentInput |-> <<>>,
   panelCount |-> Num(DefaultPanelCount),
   artStyle |-> Undefined, genre |-> Undefined,
   result |-> Undefined, error |-> Undefined]

\* part_000:115-122 (part_001:23-30)
InitialEditorState ==
  [step |-> "prompt", prompt |-> <<>>, imageUrl |-> Undefined,
   currentInput |-> <<>>, output |-> Undefined, error |-> Undefined,
   generationCount |-> 0, previousOutput |-> Undefined]

NoCalls == [story |-> 0, detail |-> 0, image |-> 0, download |-> 0, answered |-> 0]

\* a call of the kind is issued; the awaited call is answered (resolved or
\* rejected)
Issue(c, kind) == [c EXCEPT ![kind] = @ + 1]
Answer(c) == [c EXCEPT !.answered = @ + 1]

Init ==
  /\ state = InitialState
  /\ effectPending = FALSE
  /\ subject = Undefined
  /\ argument = Undefined
  /\ written = Undefined
  /\ readBack = Undefined
  /\ editor = InitialEditorState
  /\ editorEffect = FALSE
  /\ editorPc = "idle"
  /\ prediction = Undefined
  /\ started = 0
  /\ succeeded = Undefined
  /\ pc = "idle"
  /\ request = Undefined
  /\ story = Undefined
  /\ i = 0
  /\ generatedImages = <<>>
  /\ detailedDescription = Undefined
  /\ output = Undefined
  /\ response = Undefined
  /\ thrown = Undefined
  /\ run = 0
  /\ dirs = {}
  /\ files = <<>>
  /\ unlinkPending = {}
  /\ calls = NoCalls

(***************************************************************************)
(* The wizard, index.tsx.                                                  *)
(***************************************************************************)
\* a JavaScript string is truthy when it is not empty
Truthy(opt) == opt # Undefined /\ opt[1].text # ""

\* ProcessingView mounting a TextInput as the other three views do
TextInputMounted_processing(s) ==
  \/ s.step = "prompt"
  \/ s.step = "options"
  \/ s.step = "processing"
  \/ s.step = "done" /\ ~Truthy(s.error) /\ s.result # Undefined

\* index.tsx:192-234 with the views of :25-119: the screens that mount a
\* TextInput.  ProcessingView has none; DoneView has one only in its
\* result branch, which the error branch shadows.
TextInputMounted(s) ==
  \/ s.step = "prompt"
  \/ s.step = "options"
  \/ s.step = "done" /\ ~Truthy(s.error) /\ s.result # Undefined

\* index.tsx:177, the dependency array of the effect
EffectDeps(s) == <<s.step, s.prompt, s.panelCount, s.artStyle, s.genre>>

\* setState and the commit that follows: the effect of index.tsx:148-177 is
\* scheduled when a dependency changed, and its body does nothing unless
\* the step is 'processing' (:149)
setState(next) ==
  /\ state' = next
  /\ effectPending' = (EffectDeps(next) # EffectDeps(state) /\ next.step = "processing")

\* the keys considered on each screen
Keys(s) == IF s.step = "options" THEN OptionChars ELSE PromptChars

\* index.tsx:179-181, called by TextInput with the edited value: one
\* character appended, or the last one deleted
handleInputChange ==
  /\ UNCHANGED <<roundTrip, imageEditor>>
  /\ TextInputMounted(state)
  /\ \E value \in {Append(state.currentInput, c) : c \in Keys(state)}
                  \cup {SubSeq(state.currentInput, 1, Len(state.currentInput) - 1)} :
       /\ Len(value) <= MaxLen
       /\ value # state.currentInput
       /\ setState([state EXCEPT !.currentInput = value])
  /\ UNCHANGED <<pc, request, locals, thrown, run, disk, calls>>

\* handlePromptSubmit going straight to 'processing'
PromptSubmitted_skipsOptions(prev, value) ==
  [prev EXCEPT !.prompt = value, !.step = "processing", !.currentInput = <<>>]

\* index.tsx:129-136
PromptSubmitted(prev, value) ==
  [prev EXCEPT !.prompt = value, !.step = "options", !.currentInput = <<>>]

handlePromptSubmit ==
  /\ UNCHANGED <<roundTrip, imageEditor>>
  /\ state.step = "prompt"
  /\ TextInputMounted(state)
  /\ setState(PromptSubmitted(state, state.currentInput))
  /\ UNCHANGED <<pc, request, locals, thrown, run, disk, calls>>

\* index.tsx:138-146
OptionsSubmitted(prev, value) ==
  [prev EXCEPT !.panelCount = OptionsPanelCount(value),
               !.step = "processing", !.currentInput = <<>>]

handleOptionsSubmit ==
  /\ UNCHANGED <<roundTrip, imageEditor>>
  /\ state.step = "options"
  /\ TextInputMounted(state)
  /\ run < MaxRuns
  /\ setState(OptionsSubmitted(state, state.currentInput))
  /\ UNCHANGED <<pc, request, locals, thrown, run, disk, calls>>

\* handleDoneSubmit replacing the state but keeping the finished result
DoneSubmitted_keepsResult(prev, value) ==
  [step |-> "prompt", prompt |-> <<>>, currentInput |-> value,
   panelCount |-> Num(DefaultPanelCount),
   artStyle |-> Undefined, genre |-> Undefined,
   result |-> prev.result, error |-> Undefined]

\* handleDoneSubmit merging into the previous state, as the other handlers do
DoneSubmitted_merged(prev, value) ==
  [prev EXCEPT !.step = "prompt", !.prompt = <<>>, !.currentInput = value,
               !.panelCount = Num(DefaultPanelCount)]

\* index.tsx:183-190: the state is replaced, not merged
DoneSubmitted(prev, value) ==
  [step |-> "prompt", prompt |-> <<>>, currentInput |-> value,
   panelCount |-> Num(DefaultPanelCount),
   artStyle |-> Undefined, genre |-> Undefined,
   result |-> Undefined, error |-> Undefined]

handleDoneSubmit ==
  /\ UNCHANGED <<roundTrip, imageEditor>>
  /\ state.step = "done"
  /\ TextInputMounted(state)
  /\ setState(DoneSubmitted(state, state.currentInput))
  /\ UNCHANGED <<pc, request, locals, thrown, run, disk, calls>>


(***************************************************************************)
(* processComic, index.tsx:148-177: how the awaited generateComic settles. *)
(* A settled promise runs its continuations (the catch blocks of           *)
(* generateImageWithFlux and generateComic, then processComic) before any  *)
(* other event, so settling and setState are one step.                     *)
(***************************************************************************)
Settled == {"idle", "returned", "threw"}

\* the branches of the conditional of index.tsx:170 exchanged
CatchMessage_swapped(error) ==
  IF error.isError THEN Msg("Unknown error", 0) ELSE error.message

\* index.tsx:170
CatchMessage(error) ==
  IF error.isError THEN error.message ELSE Msg("Unknown error", 0)

\* index.tsx:161-165
ResultState(prev, result) == [prev EXCEPT !.step = "done", !.result = Some(result)]

\* index.tsx:167-171
ErrorState(prev, error) ==
  [prev EXCEPT !.step = "done", !.error = Some(CatchMessage(error))]

\* generateComic rejects with error; processComic is over and its request
\* with it
Throws(error) ==
  /\ pc' = "threw"
  /\ request' = Undefined
  /\ thrown' = Some(error)
  /\ setState(ErrorState(state, error))

\* generateComic resolves with result
Returns(result) ==
  /\ pc' = "returned"
  /\ request' = Undefined
  /\ thrown' = Undefined
  /\ setState(ResultState(state, result))

(***************************************************************************)
(* The pipeline, comic-generator.ts.                                       *)
(***************************************************************************)
\* comic-generator.ts:18-34: the directories ensureWorkspaceDirectory makes,
\* in order; an existing one is skipped
WorkspaceDirs == <<WorkspaceDir, ComicsDir, ImagesDir>>

\* generateComic without its call of ensureWorkspaceDirectory
MissingDirs_none(ds) == <<>>

MissingDirs(ds) == SelectSeq(WorkspaceDirs, LAMBDA d : d \notin ds)

Range(q) == {q[n] : n \in 1..Len(q)}

\* comic-generator.ts:228-236 (the timestamps are left out)
GenerationResult(s, images) ==
  [story |-> s, generatedImages |-> images,
   metadata |-> [totalPanels |-> Len(s.panels)]]

\* the record numbered by a constant instead of by its panel
ImageRecord_firstId(panel) == [panelId |-> 1, imagePath |-> ImagePath(panel.id)]

\* comic-generator.ts:214-218
ImageRecord(panel) == [panelId |-> panel.id, imagePath |-> ImagePath(panel.id)]

\* comic-generator.ts:160-170
PanelData(panel, description) ==
  [id |-> panel.id, detailedVisualDescription |-> description]

\* fs.writeFileSync / fs.createWriteStream by the current invocation
Written(f, path, data) == Put(f, path, [by |-> run, data |-> data])

\* the loop calling createPanelFile and generateDetailedImageDescription
\* without awaiting the first: two detailing calls are issued at once
LoopFrom_eager(k, s, images, f, fsOk) ==
  IF k <= Len(s.panels)
    THEN /\ i' = k
         /\ generatedImages' = images
         /\ detailedDescription' = Undefined
         /\ output' = Undefined
         /\ response' = Undefined
         /\ files' = f
         /\ pc' = "detail1"
         /\ calls' = Issue(Issue(Answer(calls), "detail"), "detail")
         /\ UNCHANGED <<ui, request, thrown>>
    ELSE /\ i' = k
         /\ generatedImages' = images
         /\ detailedDescription' = Undefined
         /\ output' = Undefined
         /\ response' = Undefined
         /\ calls' = Answer(calls)
         /\ IF fsOk
              THEN /\ files' = Written(f, ResultPath(run), GenerationResult(s, images))
                   /\ Returns(GenerationResult(s, images))
              ELSE /\ files' = f
                   /\ Throws(WriteFileError)

\* comic-generator.ts:201-246 from the loop test on, at position k with the
\* images collected so far: the next panel's createPanelFile issues its
\* detailing call, or the loop is over and result.json is written
LoopFrom(k, s, images, f, fsOk) ==
  IF k <= Len(s.panels)
    THEN /\ i' = k
         /\ generatedImages' = images
         /\ detailedDescription' = Undefined
         /\ output' = Undefined
         /\ response' = Undefined
         /\ files' = f
         /\ pc' = "detail1"
         /\ calls' = Issue(Answer(calls), "detail")
         /\ UNCHANGED <<ui, request, thrown>>
    ELSE /\ i' = k
         /\ generatedImages' = images
         /\ detailedDescription' = Undefined
         /\ output' = Undefined
         /\ response' = Undefined
         /\ calls' = Answer(calls)
         /\ IF fsOk
              THEN /\ files' = Written(f, ResultPath(run), GenerationResult(s, images))
                   /\ Returns(GenerationResult(s, images))
              ELSE /\ files' = f
                   /\ Throws(WriteFileError)

\* the request built from the text of the input box instead of the
\* submitted prompt
ComicGenerationRequest_fromInput(s) ==
  [prompt |-> s.currentInput, panelCount |-> s.panelCount,
   artStyle |-> s.artStyle, genre |-> s.genre]

\* index.tsx:152-157
ComicGenerationRequest(s) ==
  [prompt |-> s.prompt, panelCount |-> s.panelCount,
   artStyle |-> s.artStyle, genre |-> s.genre]

\* index.tsx:148-159 and comic-generator.ts:178-183: the effect of entering
\* 'processing' builds the request and calls generateComic, which runs up
\* to its first await inside generateComicStory
processComic ==
  /\ UNCHANGED <<roundTrip, imageEditor>>
  /\ effectPending
  /\ run' = run + 1
  /\ story' = Undefined
  /\ i' = 0
  /\ generatedImages' = <<>>
  /\ detailedDescription' = Undefined
  /\ output' = Undefined
  /\ response' = Undefined
  /\ UNCHANGED <<files, unlinkPending>>
  /\ \E made \in 0..Len(MissingDirs(dirs)) :
       /\ dirs' = dirs \cup Range(SubSeq(MissingDirs(dirs), 1, made))
       /\ IF made = Len(MissingDirs(dirs))
            THEN /\ request' = Some(ComicGenerationRequest(state))
                 /\ pc' = "story"
                 /\ thrown' = Undefined
                 /\ calls' = Issue(NoCalls, "story")
                 /\ UNCHANGED state
                 /\ effectPending' = FALSE
            ELSE /\ calls' = NoCalls
                 /\ Throws(MkdirError)

\* comic-generator.ts:147-154 and :183-203: generateObject resolves with an
\* object that passed ComicStorySchema
generateComicStory_resolves ==
  /\ UNCHANGED <<roundTrip, imageEditor>>
  /\ pc = "story"
  /\ \E s \in ComicStorySchema, fs \in {"ok", "mkdir", "write"}, fsOk \in BOOLEAN :
       /\ story' = Some(s)
       /\ CASE fs = "ok" ->
                 /\ dirs' = dirs \cup {ComicDir(run)}
                 /\ LoopFrom(1, s, <<>>, Written(files, StoryPath(run), s), fsOk)
            [] fs = "mkdir" ->
                 /\ fsOk
                 /\ Throws(MkdirError)
                 /\ calls' = Answer(calls)
                 /\ UNCHANGED <<dirs, files, i, generatedImages, detailedDescription,
                                output, response>>
            [] fs = "write" ->
                 /\ fsOk
                 /\ dirs' = dirs \cup {ComicDir(run)}
                 /\ Throws(WriteFileError)
                 /\ calls' = Answer(calls)
                 /\ UNCHANGED <<files, i, generatedImages, detailedDescription,
                                output, response>>
  /\ UNCHANGED <<run, unlinkPending>>

\* generateComic calling generateComicStory again after a rejection
generateComicStory_rejects_retried ==
  /\ UNCHANGED <<roundTrip, imageEditor>>
  /\ pc = "story"
  /\ calls.story < 2
  /\ calls' = Issue(Answer(calls), "story")
  /\ UNCHANGED <<ui, pc, request, thrown, locals, run, disk>>

\* comic-generator.ts:147-152: generateObject rejects (schema validation or
\* transport); generateComic has no catch around it
generateComicStory_rejects ==
  /\ UNCHANGED <<roundTrip, imageEditor>>
  /\ pc = "story"
  /\ \E e \in StoryErrors : Throws(e)
  /\ calls' = Answer(calls)
  /\ UNCHANGED <<locals, run, disk>>

\* the loop body reusing the text createPanelFile obtained instead of
\* issuing its own detailing call
createPanelFile_resolves_cached ==
  /\ UNCHANGED <<roundTrip, imageEditor>>
  /\ pc = "detail1"
  /\ \E fsOk \in BOOLEAN :
       LET panel == story[1].panels[i]
           text == Description(run, calls.detail)
       IN IF fsOk
            THEN /\ files' = Written(files, PanelPath(run, panel.id), PanelData(panel, text))
                 /\ detailedDescription' = Some(text)
                 /\ pc' = "flux"
                 /\ calls' = Issue(Answer(calls), "image")
                 /\ UNCHANGED <<ui, request, thrown>>
            ELSE /\ Throws(WriteFileError)
                 /\ calls' = Answer(calls)
                 /\ UNCHANGED <<files, detailedDescription>>
  /\ UNCHANGED <<story, i, generatedImages, output, response, run, dirs, unlinkPending>>

\* comic-generator.ts:157-176 and :206-209: the detailing call of
\* createPanelFile resolves, the panel file is written and the loop body
\* issues its own detailing call
createPanelFile_resolves ==
  /\ UNCHANGED <<roundTrip, imageEditor>>
  /\ pc = "detail1"
  /\ \E fsOk \in BOOLEAN :
       LET panel == story[1].panels[i]
           text == Description(run, calls.detail)
       IN IF fsOk
            THEN /\ files' = Written(files, PanelPath(run, panel.id), PanelData(panel, text))
                 /\ pc' = "detail2"
                 /\ calls' = Issue(Answer(calls), "detail")
                 /\ UNCHANGED <<ui, request, thrown>>
            ELSE /\ Throws(WriteFileError)
                 /\ calls' = Answer(calls)
                 /\ UNCHANGED files
  /\ UNCHANGED <<locals, run, dirs, unlinkPending>>

\* comic-generator.ts:158 and :221-224
createPanelFile_rejects ==
  /\ UNCHANGED <<roundTrip, imageEditor>>
  /\ pc = "detail1"
  /\ Throws(DetailError)
  /\ calls' = Answer(calls)
  /\ UNCHANGED <<locals, run, disk>>

\* comic-generator.ts:209-212 and :88-103: the second detailing call
\* resolves and its text is the prompt of replicate.run
generateDetailedImageDescription_resolves ==
  /\ UNCHANGED <<roundTrip, imageEditor>>
  /\ pc = "detail2"
  /\ detailedDescription' = Some(Description(run, calls.detail))
  /\ pc' = "flux"
  /\ calls' = Issue(Answer(calls), "image")
  /\ UNCHANGED <<ui, request, story, i, generatedImages, output, response,
                 thrown, run, disk>>

\* comic-generator.ts:209 and :221-224
generateDetailedImageDescription_rejects ==
  /\ UNCHANGED <<roundTrip, imageEditor>>
  /\ pc = "detail2"
  /\ Throws(DetailError)
  /\ calls' = Answer(calls)
  /\ UNCHANGED <<locals, run, disk>>


CurrentPanel == story[1].panels[i]

\* comic-generator.ts:63, fs.createWriteStream(filepath) opens with flag 'w':
\* the file is created, or truncated when it exists
createWriteStream(f, path) == Written(f, path, "empty")

\* comic-generator.ts:92-114 and :61-65: replicate.run resolves.  A value
\* without url() throws a TypeError at :103, before the check of :105; a
\* url() without a string href fails the check of :105; otherwise
\* downloadImage opens the file and issues the GET
generateImageWithFlux_resolves ==
  /\ UNCHANGED <<roundTrip, imageEditor>>
  /\ pc = "flux"
  /\ \E resolved \in FluxOutputs :
       /\ output' = Some(resolved)
       /\ CASE resolved = "no_url" ->
              /\ Throws(UrlTypeError)
              /\ calls' = Answer(calls)
              /\ UNCHANGED files
         [] resolved = "bad_href" ->
              /\ Throws(InvalidOutputError)
              /\ calls' = Answer(calls)
              /\ UNCHANGED files
         [] resolved = "file" ->
              /\ files' = createWriteStream(files, ImagePath(CurrentPanel.id))
              /\ pc' = "download"
              /\ calls' = Issue(Answer(calls), "download")
              /\ UNCHANGED <<ui, request, thrown>>
  /\ UNCHANGED <<story, i, generatedImages, detailedDescription, response,
                 run, dirs, unlinkPending>>

\* comic-generator.ts:92-103 and :119-122
generateImageWithFlux_rejects ==
  /\ UNCHANGED <<roundTrip, imageEditor>>
  /\ pc = "flux"
  /\ Throws(ReplicateError)
  /\ calls' = Answer(calls)
  /\ UNCHANGED <<locals, run, disk>>

\* comic-generator.ts:63 and :78: the stream cannot open the file.  Its
\* 'error' listener is attached only inside the response callback, so the
\* event has no listener: the process dies and nothing is rejected
createWriteStream_fails ==
  /\ UNCHANGED <<roundTrip, imageEditor>>
  /\ pc = "flux"
  /\ pc' = "crashed"
  /\ output' = Some("file")
  /\ calls' = Issue(Answer(calls), "download")
  /\ UNCHANGED <<ui, request, story, i, generatedImages, detailedDescription,
                 response, thrown, run, disk>>

\* comic-generator.ts:65-71: the response arrives
downloadImage_response ==
  /\ UNCHANGED <<roundTrip, imageEditor>>
  /\ pc = "download"
  /\ \E statusCode \in HttpStatuses :
       /\ response' = Some(statusCode)
       /\ IF statusCode # 200
         THEN /\ Throws(DownloadStatusError(statusCode))
              /\ calls' = Answer(calls)
              /\ UNCHANGED files
         ELSE /\ pc' = "piping"
              /\ files' = Written(files, ImagePath(CurrentPanel.id), "partial")
              /\ UNCHANGED <<ui, request, thrown, calls>>
  /\ UNCHANGED <<story, i, generatedImages, detailedDescription, output,
                 run, dirs, unlinkPending>>

\* comic-generator.ts:82-84: the request fails before a response
downloadImage_requestError ==
  /\ UNCHANGED <<roundTrip, imageEditor>>
  /\ pc = "download"
  /\ Throws(RequestError)
  /\ calls' = Answer(calls)
  /\ UNCHANGED <<locals, run, disk>>

\* comic-generator.ts:73-76, :116-117, :214-225: the stream finishes, the
\* image record is pushed and the loop goes on
downloadImage_finish ==
  /\ UNCHANGED <<roundTrip, imageEditor>>
  /\ pc = "piping"
  /\ \E fsOk \in BOOLEAN :
       LoopFrom(i + 1, story[1], Append(generatedImages, ImageRecord(CurrentPanel)),
                Written(files, ImagePath(CurrentPanel.id), "complete"), fsOk)
  /\ UNCHANGED <<story, run, dirs, unlinkPending>>

\* comic-generator.ts:78-81: the stream fails while writing; fs.unlink is
\* asynchronous, so when the rejection is handled the file is gone already
\* or its removal is still pending
downloadImage_fileError ==
  /\ UNCHANGED <<roundTrip, imageEditor>>
  /\ pc = "piping"
  /\ Throws(StreamError)
  /\ \E removed \in BOOLEAN :
       IF removed
         THEN /\ files' = Remove(files, ImagePath(CurrentPanel.id))
              /\ UNCHANGED unlinkPending
         ELSE /\ unlinkPending' = unlinkPending \cup {CurrentPanel.id}
              /\ UNCHANGED files
  /\ calls' = Answer(calls)
  /\ UNCHANGED <<locals, run, dirs>>

\* comic-generator.ts:79: the pending fs.unlink completes
unlink_completes ==
  /\ UNCHANGED <<roundTrip, imageEditor>>
  /\ \E id \in unlinkPending :
       /\ files' = Remove(files, ImagePath(id))
       /\ unlinkPending' = unlinkPending \ {id}
  /\ UNCHANGED <<ui, pc, request, locals, thrown, run, dirs, calls>>

\* comic-generator.ts:65-84: the response stream breaks after the headers.
\* No listener is attached to it, and pipe() does not end the file, so the
\* promise is neither resolved nor rejected
downloadImage_aborted ==
  /\ UNCHANGED <<roundTrip, imageEditor>>
  /\ pc = "piping"
  /\ pc' = "stalled"
  /\ UNCHANGED <<ui, request, locals, thrown, run, disk, calls>>

Next ==
  \/ handleInputChange
  \/ handlePromptSubmit
  \/ handleOptionsSubmit
  \/ handleDoneSubmit
  \/ processComic
  \/ generateComicStory_resolves
  \/ generateComicStory_rejects
  \/ createPanelFile_resolves
  \/ createPanelFile_rejects
  \/ generateDetailedImageDescription_resolves
  \/ generateDetailedImageDescription_rejects
  \/ generateImageWithFlux_resolves
  \/ generateImageWithFlux_rejects
  \/ createWriteStream_fails
  \/ downloadImage_response
  \/ downloadImage_requestError
  \/ downloadImage_finish
  \/ downloadImage_fileError
  \/ downloadImage_aborted
  \/ unlink_completes

Spec == Init /\ [][Next]_vars

(***************************************************************************)
(* Scheduling.  A scheduled effect runs; every external call is answered:  *)
(* the story, detailing and image calls resolve or reject, the GET gets a  *)
(* response or a request error, and the response stream ends, fails the    *)
(* write, or breaks.  The user and the pending unlink are not obliged.     *)
(***************************************************************************)
StoryAnswered == generateComicStory_resolves \/ generateComicStory_rejects

PanelFileAnswered == createPanelFile_resolves \/ createPanelFile_rejects

DetailAnswered ==
  generateDetailedImageDescription_resolves \/ generateDetailedImageDescription_rejects

FluxAnswered ==
  generateImageWithFlux_resolves \/ generateImageWithFlux_rejects \/ createWriteStream_fails

GetAnswered == downloadImage_response \/ downloadImage_requestError

StreamEnded == downloadImage_finish \/ downloadImage_fileError \/ downloadImage_aborted

LiveSpec ==
  /\ Spec
  /\ WF_vars(processComic)
  /\ WF_vars(StoryAnswered)
  /\ WF_vars(PanelFileAnswered)
  /\ WF_vars(DetailAnswered)
  /\ WF_vars(FluxAnswered)
  /\ WF_vars(GetAnswered)
  /\ WF_vars(StreamEnded)


(***************************************************************************)
(* The files as JSON.  A JavaScript value is tagged with its type; an      *)
(* object is a function from its own property names to values, so a        *)
(* property that is present with the value undefined differs from an       *)
(* absent one.  A JSON document is a tree of the JSON grammar, which has   *)
(* no undefined.  Numbers are finite here, strings are opaque.             *)
(***************************************************************************)
JsUndefined == [type |-> "undefined"]
JsNull == [type |-> "null"]
JsNumber(n) == [type |-> "number", num |-> n]
JsString(s) == [type |-> "string", str |-> s]
JsArray(items) == [type |-> "array", items |-> items]
JsObject(props) == [type |-> "object", props |-> props]

\* obj.key: undefined when the object has no such property
Get(obj, key) == IF key \in DOMAIN obj.props THEN obj.props[key] ELSE JsUndefined

\* JSON.stringify writing null where a property is undefined
RECURSIVE JSONstringify_nullForUndefined(_)
JSONstringify_nullForUndefined(v) ==
  CASE v.type = "undefined" -> [json |-> "null"]
    [] v.type = "null" -> [json |-> "null"]
    [] v.type = "number" -> [json |-> "number", num |-> v.num]
    [] v.type = "string" -> [json |-> "string", str |-> v.str]
    [] v.type = "array" ->
         [json |-> "array",
          items |-> [n \in 1..Len(v.items) |-> JSONstringify_nullForUndefined(v.items[n])]]
    [] v.type = "object" ->
         [json |-> "object",
          members |-> [k \in DOMAIN v.props |-> JSONstringify_nullForUndefined(v.props[k])]]

\* JSON.stringify(value, null, 2), comic-generator.ts:173, :194, :240: an
\* undefined value has no text; inside an array it is written as null,
\* and a property whose value is undefined is left out.  The indentation
\* is white space only.
RECURSIVE JSONstringify(_)
JSONstringify(v) ==
  CASE v.type = "undefined" -> [json |-> "none"]
    [] v.type = "null" -> [json |-> "null"]
    [] v.type = "number" -> [json |-> "number", num |-> v.num]
    [] v.type = "string" -> [json |-> "string", str |-> v.str]
    [] v.type = "array" ->
         [json |-> "array",
          items |-> [n \in 1..Len(v.items) |->
                       IF v.items[n].type = "undefined" THEN [json |-> "null"]
                       ELSE JSONstringify(v.items[n])]]
    [] v.type = "object" ->
         [json |-> "object",
          members |-> [k \in {x \in DOMAIN v.props : v.props[x].type # "undefined"} |->
                         JSONstringify(v.props[k])]]

\* JSON.parse
RECURSIVE JSONparse(_)
JSONparse(t) ==
  CASE t.json = "null" -> JsNull
    [] t.json = "number" -> JsNumber(t.num)
    [] t.json = "string" -> JsString(t.str)
    [] t.json = "array" -> JsArray([n \in 1..Len(t.items) |-> JSONparse(t.items[n])])
    [] t.json = "object" -> JsObject([k \in DOMAIN t.members |-> JSONparse(t.members[k])])

\* part_002:8-11, the optional dialogue of a panel that passed the schema:
\* no property, an empty list, or a list of {character, text}
DialogueLine == JsObject([character |-> JsString("character"), text |-> JsString("text")])
Dialogues == {Undefined, Some(JsArray(<<>>)), Some(JsArray(<<DialogueLine>>))}

\* part_002:3-14, a panel as generateObject returns it
Panel(id, dialogue) ==
  LET required == [id |-> JsNumber(id),
                   description |-> JsString("description"),
                   characters |-> JsArray(<<JsString("name")>>),
                   setting |-> JsString("setting"),
                   visualStyle |-> JsString("visualStyle"),
                   imagePrompt |-> JsString("imagePrompt")]
  IN JsObject(IF dialogue = Undefined THEN required
              ELSE Put(required, "dialogue", dialogue[1]))

Panels == {Panel(id, dialogue) : id \in PanelIds, dialogue \in Dialogues}

\* part_002:16-27
Story(panels) ==
  JsObject([title |-> JsString("title"),
            genre |-> JsString("genre"),
            theme |-> JsString("theme"),
            characters |-> JsArray(<<JsObject([name |-> JsString("name"),
                                               description |-> JsString("description"),
                                               visualDescription |-> JsString("visualDescription")])>>),
            panels |-> JsArray(panels),
            artStyle |-> JsString("artStyle")])

Stories == {Story(panels) : panels \in SeqsUpTo(Panels, MaxPanels)}

\* comic-generator.ts:160-170
panelData(panel, s, text) ==
  JsObject([id |-> Get(panel, "id"),
            description |-> Get(panel, "description"),
            characters |-> Get(panel, "characters"),
            setting |-> Get(panel, "setting"),
            dialogue |-> Get(panel, "dialogue"),
            visualStyle |-> Get(panel, "visualStyle"),
            imagePrompt |-> Get(panel, "imagePrompt"),
            detailedVisualDescription |-> JsString(text),
            artStyle |-> Get(s, "artStyle")])

\* comic-generator.ts:214-218 and :228-236, the result of a run that
\* processed every panel of the story
ComicGenerationResult(s) ==
  LET panels == Get(s, "panels").items
  IN JsObject([story |-> s,
               generatedImages |->
                 JsArray([n \in 1..Len(panels) |->
                            JsObject([panelId |-> Get(panels[n], "id"),
                                      imageUrl |-> JsString("file://imagePath"),
                                      imagePath |-> JsString("imagePath")])]),
               metadata |->
                 JsObject([generatedAt |-> JsString("generatedAt"),
                           totalPanels |-> JsNumber(Len(panels)),
                           processingTimeMs |-> JsNumber(0)])])

File(name, value) == [name |-> name, text |-> JSONstringify(value)]

\* comic-generator.ts:192-195
writeStory ==
  /\ subject # Undefined
  /\ argument' = Some(subject[1])
  /\ written' = Some(File("story.json", subject[1]))
  /\ readBack' = Undefined
  /\ UNCHANGED <<comic, imageEditor, subject>>

\* comic-generator.ts:157-176
writePanel ==
  /\ subject # Undefined
  /\ \E n \in 1..Len(Get(subject[1], "panels").items) :
       LET data == panelData(Get(subject[1], "panels").items[n], subject[1],
                             "detailedDescription")
       IN /\ argument' = Some(data)
          /\ written' = Some(File("panel-<id>.json", data))
  /\ readBack' = Undefined
  /\ UNCHANGED <<comic, imageEditor, subject>>

\* comic-generator.ts:228-241
writeResult ==
  /\ subject # Undefined
  /\ argument' = Some(ComicGenerationResult(subject[1]))
  /\ written' = Some(File("result.json", ComicGenerationResult(subject[1])))
  /\ readBack' = Undefined
  /\ UNCHANGED <<comic, imageEditor, subject>>

\* a reader of the comic directory parses the file
readFile ==
  /\ written # Undefined
  /\ readBack = Undefined
  /\ readBack' = Some(JSONparse(written[1].text))
  /\ UNCHANGED <<comic, imageEditor, subject, argument, written>>

RoundTripInit ==
  /\ state = InitialState
  /\ effectPending = FALSE
  /\ pc = "idle"
  /\ request = Undefined
  /\ story = Undefined
  /\ i = 0
  /\ generatedImages = <<>>
  /\ detailedDescription = Undefined
  /\ output = Undefined
  /\ response = Undefined
  /\ thrown = Undefined
  /\ run = 0
  /\ dirs = {}
  /\ files = <<>>
  /\ unlinkPending = {}
  /\ calls = NoCalls
  /\ editor = InitialEditorState
  /\ editorEffect = FALSE
  /\ editorPc = "idle"
  /\ prediction = Undefined
  /\ started = 0
  /\ succeeded = Undefined
  /\ subject \in {Some(s) : s \in Stories}
  /\ argument = Undefined
  /\ written = Undefined
  /\ readBack = Undefined

RoundTripNext ==
  \/ writeStory
  \/ writePanel
  \/ writeResult
  \/ readFile

RoundTripSpec == RoundTripInit /\ [][RoundTripNext]_vars

(***************************************************************************)
(* The image-editing UI, src/unnamed/part_000 (part_001 is the same        *)
(* component with its views written inline and another model name).  A     *)
(* step-by-step wizard around one replicate.run per generation.            *)
(***************************************************************************)
\* the href of the output of the n-th replicate.run
Href(n) == [generation |-> n]

\* keys of the prompt, image and done screens (free text)
EditorChars == {"a", "b"}

\* what replicate.run resolves to: a FileOutput, or a value without url()
EditorOutputs == {"file", "no_url"}

\* part_000:175, the dependency array of the effect
EditorDeps(s) == <<s.step, s.prompt, s.imageUrl>>

\* setState and the commit that follows: the effect of part_000:139-175 is
\* scheduled when a dependency changed, and its body does nothing unless
\* the step is 'processing' (:140)
editor_setState(next) ==
  /\ editor' = next
  /\ editorEffect' = (EditorDeps(next) # EditorDeps(editor) /\ next.step = "processing")

\* part_000:192-231 with the views of :29-112: the screens that mount a
\* TextInput.  DoneView mounts one unless error is truthy
EditorTextInputMounted(s) ==
  \/ s.step = "prompt"
  \/ s.step = "image"
  \/ s.step = "done" /\ ~Truthy(s.error)

\* part_000:177-179, called by TextInput with the edited value
editor_handleInputChange ==
  /\ EditorTextInputMounted(editor)
  /\ \E value \in {Append(editor.currentInput, c) : c \in EditorChars}
                  \cup {SubSeq(editor.currentInput, 1, Len(editor.currentInput) - 1)} :
       /\ Len(value) <= MaxLen
       /\ value # editor.currentInput
       /\ editor_setState([editor EXCEPT !.currentInput = value])
  /\ UNCHANGED <<comic, roundTrip, editorPc, prediction, started, succeeded>>

\* handlePromptSubmit asking for an image URL whatever the count
EditorPromptSubmitted_asksImage(prev, value) ==
  [prev EXCEPT !.prompt = value,
               !.step = "image",
               !.currentInput = <<>>,
               !.generationCount = prev.generationCount + 1,
               !.imageUrl = IF prev.generationCount > 0 THEN prev.previousOutput
                            ELSE Undefined]

\* part_000:124-133
EditorPromptSubmitted(prev, value) ==
  [prev EXCEPT !.prompt = value,
               !.step = IF prev.generationCount = 0 THEN "processing" ELSE "image",
               !.currentInput = <<>>,
               !.generationCount = prev.generationCount + 1,
               !.imageUrl = IF prev.generationCount > 0 THEN prev.previousOutput
                            ELSE Undefined]

\* part_000:135-137: the URL typed is the input image
EditorImageSubmitted(prev, value) ==
  [prev EXCEPT !.imageUrl = Some(value), !.step = "processing"]

\* handleDoneSubmit keeping the input image of the generation before
EditorDoneSubmitted_sameImage(prev, value) ==
  [prev EXCEPT !.prompt = value,
               !.step = "processing",
               !.currentInput = <<>>,
               !.generationCount = prev.generationCount + 1,
               !.imageUrl = prev.imageUrl]

\* part_000:181-190
EditorDoneSubmitted(prev, value) ==
  [prev EXCEPT !.prompt = value,
               !.step = "processing",
               !.currentInput = <<>>,
               !.generationCount = prev.generationCount + 1,
               !.imageUrl = prev.previousOutput]

\* part_000:192-231: Enter in the mounted TextInput calls the onSubmit that
\* render passed to it for the current step, with the text of the input
editor_onSubmit ==
  /\ EditorTextInputMounted(editor)
  /\ editor.generationCount < MaxGenerations
  /\ editor_setState(
       CASE editor.step = "prompt" -> EditorPromptSubmitted(editor, editor.currentInput)
         [] editor.step = "image" -> EditorImageSubmitted(editor, editor.currentInput)
         [] editor.step = "done" -> EditorDoneSubmitted(editor, editor.currentInput))
  /\ UNCHANGED <<comic, roundTrip, editorPc, prediction, started, succeeded>>

\* part_000:143-149
EditorInput(s) == [prompt |-> s.prompt, input_image |-> s.imageUrl]

\* part_000:139-156: the effect of entering 'processing' builds the input
\* and calls replicate.run
processImage ==
  /\ editorEffect
  /\ editorEffect' = FALSE
  /\ editorPc' = "running"
  /\ prediction' = Some(EditorInput(editor))
  /\ started' = started + 1
  /\ UNCHANGED <<comic, roundTrip, editor, succeeded>>

\* part_000:158-163
OutputState(prev, href) ==
  [prev EXCEPT !.step = "done", !.output = Some(href), !.previousOutput = Some(href)]

\* part_000:165-169
EditorErrorState(prev, error) ==
  [prev EXCEPT !.step = "done", !.error = Some(CatchMessage(error))]

\* part_000:151-163: replicate.run resolves.  output.url().href is
\* evaluated inside the updater, which React calls while rendering and not
\* inside the try of processImage: a value without url() makes the render
\* throw, and the application ends with the state as it was
editor_replicate_resolves ==
  /\ editorPc = "running"
  /\ prediction' = Undefined
  /\ \E resolved \in EditorOutputs :
       IF resolved = "file"
         THEN /\ editorPc' = "idle"
              /\ succeeded' = Some(Href(started))
              /\ editor_setState(OutputState(editor, Href(started)))
         ELSE /\ editorPc' = "crashed"
              /\ UNCHANGED <<editor, editorEffect, succeeded>>
  /\ UNCHANGED <<comic, roundTrip, started>>

\* part_000:151-156 and :164-170: replicate.run rejects
editor_replicate_rejects ==
  /\ editorPc = "running"
  /\ prediction' = Undefined
  /\ editorPc' = "idle"
  /\ editor_setState(EditorErrorState(editor, ReplicateError))
  /\ UNCHANGED <<comic, roundTrip, started, succeeded>>

EditorInit ==
  /\ state = InitialState
  /\ effectPending = FALSE
  /\ pc = "idle"
  /\ request = Undefined
  /\ story = Undefined
  /\ i = 0
  /\ generatedImages = <<>>
  /\ detailedDescription = Undefined
  /\ output = Undefined
  /\ response = Undefined
  /\ thrown = Undefined
  /\ run = 0
  /\ dirs = {}
  /\ files = <<>>
  /\ unlinkPending = {}
  /\ calls = NoCalls
  /\ subject = Undefined
  /\ argument = Undefined
  /\ written = Undefined
  /\ readBack = Undefined
  /\ editor = InitialEditorState
  /\ editorEffect = FALSE
  /\ editorPc = "idle"
  /\ prediction = Undefined
  /\ started = 0
  /\ succeeded = Undefined

EditorNext ==
  \/ editor_handleInputChange
  \/ editor_onSubmit
  \/ processImage
  \/ editor_replicate_resolves
  \/ editor_replicate_rejects

EditorSpec == EditorInit /\ [][EditorNext]_vars

(***************************************************************************)
(* Properties.                                                             *)
(***************************************************************************)
InRange(n) == ~n.nan /\ n.val \in MinPanelCount..MaxPanelCount

PanelFilesOf(r) ==
  {p \in DOMAIN files : p.dir = "comic" /\ p.run = r /\ p.name = "panel-<id>.json"}

ImageFilesBy(r) == {p \in DOMAIN files : p.dir = "images" /\ files[p].by = r}

Ids(panels, from, to) == {panels[n].id : n \in from..to}

\* C1: the panelCount stored by handleOptionsSubmit, and the one of the
\* request passed to generateComic, is an integer in [1,12] whatever text
\* was submitted.
C1_PanelCountInRange ==
  /\ InRange(state.panelCount)
  /\ request # Undefined => InRange(request[1].panelCount)

\* C2: on the done screen with an error set, a submit is enabled (and leads
\* back to 'prompt').
C2_ErrorScreenAcceptsSubmit ==
  (state.step = "done" /\ state.error # Undefined) => ENABLED handleDoneSubmit

\* C3: a run for panelCount N in [1,12] that returns has written exactly N
\* panel files in its comic directory and exactly N image files, and its
\* result has totalPanels = N.
C3_ExactlyNPanels ==
  (state.step = "done" /\ state.result # Undefined /\ InRange(state.panelCount)) =>
    LET N == state.panelCount.val
    IN /\ Cardinality(PanelFilesOf(run)) = N
       /\ Cardinality(ImageFilesBy(run)) = N
       /\ state.result[1].metadata.totalPanels = N

\* a step of the panel at position i has failed
FailedAtPanel ==
  /\ pc \in {"threw", "crashed", "stalled"}
  /\ story # Undefined
  /\ i \in 1..Len(story[1].panels)

\* C4: when a step of the panel at position k fails, generateComic throws
\* to its caller and returns no result, has issued no call and written no
\* file for the positions after k, has not written result.json, and the
\* panel and image files of the positions before k are on disk.
C4_FailureAbortsLaterPanels ==
  FailedAtPanel =>
    LET panels == story[1].panels
        N == Len(panels)
        later == Ids(panels, i + 1, N) \ Ids(panels, 1, i)
    IN /\ pc = "threw"
       /\ thrown # Undefined
       /\ state.step = "done"
       /\ state.error # Undefined
       /\ state.result = Undefined
       /\ ResultPath(run) \notin DOMAIN files
       /\ calls.detail <= 2 * i
       /\ calls.image <= i
       /\ calls.download <= i
       /\ \A id \in later :
            /\ PanelPath(run, id) \notin DOMAIN files
            /\ ImagePath(id) \notin ImageFilesBy(run)
       /\ \A id \in Ids(panels, 1, i - 1) :
            /\ PanelPath(run, id) \in DOMAIN files
            /\ ImagePath(id) \in DOMAIN files
            /\ files[ImagePath(id)].data = "complete"

\* the errors downloadImage rejects with
DownloadErrors ==
  {DownloadStatusError(c) : c \in HttpStatuses \ {200}} \cup {RequestError, StreamError}

\* C5: when downloadImage has failed, panel-<id>.jpg does not exist once
\* the error has reached the caller.
C5_FailedDownloadLeavesNoFile ==
  (pc = "threw" /\ thrown[1] \in DownloadErrors) =>
    ImagePath(CurrentPanel.id) \notin DOMAIN files

\* C6: no step overwrites, truncates or deletes a file that an earlier
\* generateComic run wrote.
C6_AppendOnly ==
  [][\A p \in DOMAIN files :
       files[p].by < run => (p \in DOMAIN files' /\ files'[p] = files[p])]_vars

\* C7: in every persisted story.json the panel at position n has id n (so
\* the ids are pairwise distinct).
C7_PersistedIdsMatchPosition ==
  \A p \in DOMAIN files :
    p.name = "story.json" =>
      LET panels == files[p].data.panels
      IN /\ \A n \in 1..Len(panels) : panels[n].id = n
         /\ \A m, n \in 1..Len(panels) : m # n => panels[m].id # panels[n].id

\* C8, as stated: the transition from 'done' to 'prompt' resets every field
\* of the state to its initial value, currentInput included.
C8_ResetsEverything ==
  [][(state.step = "done" /\ state'.step = "prompt") => state' = InitialState]_vars

\* C8, amended: the transition from 'done' to 'prompt' resets every field
\* to its initial value except currentInput, which becomes the text
\* submitted on the done screen.
C8_ResetsAllButInput ==
  [][(state.step = "done" /\ state'.step = "prompt") =>
       state' = [InitialState EXCEPT !.currentInput = state.currentInput]]_vars

\* a request finished with a result, text was typed on the done screen and
\* submitted
C8_Witness ==
  /\ pc = "returned"
  /\ state.step = "prompt"
  /\ state.prompt = <<>>
  /\ state.currentInput # <<>>
  /\ run >= 1

Contains(message, statusCode) == message.status = statusCode

\* C9: when generateComic has failed, the UI is in 'done' with error equal
\* to the message of the thrown error and without a result; after a
\* non-200 response the error shown contains the status code.
C9_FailureShown ==
  pc = "threw" =>
    /\ state.step = "done"
    /\ state.error = Some(thrown[1].message)
    /\ state.result = Undefined
    /\ (response # Undefined /\ response[1] # 200) =>
         Contains(state.error[1], response[1])

\* the download of the second panel answered 404 in a second request
C9_Witness ==
  /\ pc = "threw"
  /\ run = 2
  /\ i = 2
  /\ response = Some(404)
  /\ state.step = "done"

\* C10: when replicate.run resolves to a value with a missing or non-string
\* locator, generateImageWithFlux fails with the invalid-output error,
\* no download is attempted and no image file is created for the panel, no
\* result.json is written and the files of the earlier panels stay.
C10_InvalidLocatorRejected ==
  (pc = "threw" /\ output # Undefined /\ output[1] \in {"no_url", "bad_href"}) =>
    LET panels == story[1].panels
    IN /\ thrown = Some(InvalidOutputError)
       /\ calls.download = i - 1
       /\ (CurrentPanel.id \notin Ids(panels, 1, i - 1)) =>
            ImagePath(CurrentPanel.id) \notin ImageFilesBy(run)
       /\ ResultPath(run) \notin DOMAIN files
       /\ \A id \in Ids(panels, 1, i - 1) :
            /\ PanelPath(run, id) \in DOMAIN files
            /\ ImagePath(id) \in DOMAIN files

\* external calls issued and not yet answered
InFlight == calls.story + calls.detail + calls.image + calls.download - calls.answered

\* the position the loop of the latest invocation is at, when it is at one
AtPanel == story # Undefined /\ i \in 1..Len(story[1].panels)

\* C11: at most one generateComic run is active (a run starts only when the
\* one before it has settled) and at most one external call is in flight;
\* while the loop is at position i, the story call and every call of the
\* positions before i have been answered and no call of a position after i
\* has been issued.
C11_OneCallAtATime ==
  /\ (ENABLED processComic) => pc \in Settled
  /\ InFlight \in {0, 1}
  /\ pc \in Settled => InFlight = 0
  /\ calls.story <= 1
  /\ AtPanel =>
       /\ calls.detail + calls.image + calls.download <= 4 * i
       /\ calls.detail + calls.image + calls.download >= 4 * (i - 1) + 1
       /\ calls.answered >= 1 + 4 * (i - 1)

\* the second run waits for the first detailing call of its second panel
C11_Witness ==
  /\ run = 2
  /\ pc = "detail1"
  /\ i = 2
  /\ InFlight = 1
  /\ calls.answered = 5

\* an input event of the user: typing or a submit
UserInput ==
  \/ handleInputChange
  \/ handlePromptSubmit
  \/ handleOptionsSubmit
  \/ handleDoneSubmit

\* C12: while the step is 'processing' no typing and no submit is enabled,
\* and the UI state changes only when the generateComic call started on
\* entry settles: the step becomes 'done' with its result or its error and
\* every other field keeps its value.
C12_ProcessingIsInert ==
  /\ [](state.step = "processing" => ~ENABLED UserInput)
  /\ [][(state.step = "processing" /\ state' # state) =>
          /\ pc' \in {"returned", "threw"}
          /\ run' = (IF effectPending THEN run + 1 ELSE run)
          /\ state' = [state EXCEPT !.step = "done",
                                    !.result = state'.result,
                                    !.error = state'.error]
          /\ (state'.result # Undefined) # (state'.error # Undefined)]_vars

\* the second request is being processed and its first image is streaming
C12_Witness ==
  /\ state.step = "processing"
  /\ run = 2
  /\ pc = "piping"
  /\ request # Undefined

\* one record per panel, in panel order, and the panel count in the metadata
OneRecordPerPanel(result) ==
  LET panels == result.story.panels
  IN /\ result.metadata.totalPanels = Len(panels)
     /\ Len(result.generatedImages) = Len(panels)
     /\ \A n \in 1..Len(panels) : result.generatedImages[n].panelId = panels[n].id

\* C13: every result generateComic returns (the one the UI holds and every
\* persisted result.json) has totalPanels equal to the length of
\* story.panels, as many generatedImages, and the n-th record carries the
\* id of the n-th panel; the result's story is the story that was generated.
C13_ResultMatchesStory ==
  /\ state.result # Undefined =>
       /\ OneRecordPerPanel(state.result[1])
       /\ state.result[1].story = story[1]
  /\ \A p \in DOMAIN files :
       p.name = "result.json" => OneRecordPerPanel(files[p].data)

\* the second run returned a result for a story whose panels are numbered
\* 2, 1
C13_Witness ==
  /\ pc = "returned"
  /\ run = 2
  /\ state.result # Undefined
  /\ state.result[1].story.panels = <<[id |-> 2], [id |-> 1]>>
  /\ ResultPath(2) \in DOMAIN files

FilesBy(r) == {p \in DOMAIN files : files[p].by = r}

\* C14: within a run the workspace, comics and images directories exist
\* before any file is written (and the comic directory before any file in
\* it); story.json holds the generated story and is written before any
\* detailing call; the panel file of a position is written before that
\* position's image is requested; result.json is written only when every
\* position's image has been downloaded completely, and it is on disk when
\* generateComic has returned.
C14_WritesInOrder ==
  /\ (run > 0 /\ FilesBy(run) # {}) => Range(WorkspaceDirs) \subseteq dirs
  /\ \A p \in FilesBy(run) : p.dir = "comic" => ComicDir(p.run) \in dirs
  /\ (run > 0 /\ StoryPath(run) \in DOMAIN files) =>
       /\ story # Undefined
       /\ files[StoryPath(run)].data = story[1]
       /\ calls.story = 1
       /\ calls.answered >= 1
  /\ calls.detail > 0 => StoryPath(run) \in FilesBy(run)
  /\ \A k \in 1..calls.image :
       PanelPath(run, story[1].panels[k].id) \in FilesBy(run)
  /\ (run > 0 /\ ResultPath(run) \in DOMAIN files) =>
       /\ pc = "returned"
       /\ calls.download = Len(story[1].panels)
       /\ calls.answered = 1 + 4 * Len(story[1].panels)
       /\ \A k \in 1..Len(story[1].panels) :
            /\ ImagePath(story[1].panels[k].id) \in FilesBy(run)
            /\ files[ImagePath(story[1].panels[k].id)].data = "complete"
  /\ pc = "returned" => ResultPath(run) \in FilesBy(run)

\* the first run returned after two panels: every file of the run is on disk
C14_Witness ==
  /\ pc = "returned"
  /\ run = 1
  /\ Len(story[1].panels) = 2
  /\ {StoryPath(1), ResultPath(1), PanelPath(1, 1), PanelPath(1, 2)} \subseteq DOMAIN files

\* C15: when every scheduled effect runs and every external call is
\* answered, a UI in 'processing' eventually reaches 'done' with a result
\* or an error.
C15_ProcessingEnds ==
  (state.step = "processing") ~>
    (state.step = "done" /\ (state.result # Undefined \/ state.error # Undefined))

StepCycle ==
  {<<"prompt", "options">>, <<"options", "processing">>,
   <<"processing", "done">>, <<"done", "prompt">>}

\* generateComic settles in this step
Completes == pc' # pc /\ pc' \in {"returned", "threw"}

\* C16: the step changes only along prompt -> options -> processing ->
\* done -> prompt: a prompt submit goes to 'options', an options submit to
\* 'processing', the completion of generateComic to 'done' (and nothing
\* else leaves 'processing'), a done submit to 'prompt', and typing leaves
\* the step alone.
C16_StepCycle ==
  [][/\ state'.step # state.step => <<state.step, state'.step>> \in StepCycle
     /\ handlePromptSubmit => state'.step = "options"
     /\ handleOptionsSubmit => state'.step = "processing"
     /\ handleDoneSubmit => state'.step = "prompt"
     /\ handleInputChange => state'.step = state.step
     /\ Completes => (state.step = "processing" /\ state'.step = "done")
     /\ (state.step = "processing" /\ state'.step = "done") => Completes]_vars

\* one full cycle is over and the prompt of the next one has been submitted
C16_Witness ==
  /\ state.step = "options"
  /\ run = 1
  /\ pc = "returned"
  /\ state.prompt # <<>>

\* C17, as stated: every written file deserializes to a value structurally
\* equal to the value that was serialized.
C17_RoundTripEqual ==
  readBack # Undefined => readBack[1] = argument[1]

\* C17, amended: story.json and result.json deserialize to a value equal to
\* the serialized one; panel-<id>.json deserializes to an object whose
\* properties all equal those of the serialized panelData, and the only
\* property that can be missing is dialogue, when it was serialized with
\* the value undefined (a panel without dialogue).
C17_RoundTripUpToUndefined ==
  readBack # Undefined =>
    LET a == argument[1].props
        b == readBack[1].props
    IN /\ written[1].name # "panel-<id>.json" => readBack[1] = argument[1]
       /\ DOMAIN b \subseteq DOMAIN a
       /\ \A k \in DOMAIN b : b[k] = a[k]
       /\ \A k \in DOMAIN a \ DOMAIN b : k = "dialogue" /\ a[k] = JsUndefined
       /\ Get(argument[1], "dialogue") # JsUndefined => readBack[1] = argument[1]

\* the panel file of a panel without dialogue was written and read back
C17_Witness ==
  /\ readBack # Undefined
  /\ written[1].name = "panel-<id>.json"
  /\ Get(argument[1], "dialogue") = JsUndefined
  /\ "dialogue" \in DOMAIN argument[1].props
  /\ "dialogue" \notin DOMAIN readBack[1].props

\* the image of the panel at position i has been requested
ImageRequested == AtPanel /\ pc \in {"flux", "download", "piping", "stalled", "crashed"}

\* C18: for every panel whose image is requested, two detailing calls were
\* issued: the text of the first is the detailedVisualDescription of
\* panel-<id>.json and the text of the second is the prompt of
\* replicate.run; every persisted description comes from a first call; a
\* run that returns over N panels has issued 1 story call, 2N detailing
\* calls, N image calls and N downloads.
C18_TwoDetailingCalls ==
  /\ ImageRequested =>
       /\ calls.detail = 2 * i
       /\ calls.image = i
       /\ detailedDescription = Some(Description(run, 2 * i))
       /\ files[PanelPath(run, CurrentPanel.id)].data.detailedVisualDescription
            = Description(run, 2 * i - 1)
  /\ \A p \in PanelFilesOf(run) :
       /\ files[p].data.detailedVisualDescription.run = run
       /\ files[p].data.detailedVisualDescription.call % 2 = 1
  /\ pc = "returned" =>
       LET N == Len(story[1].panels)
       IN /\ calls.story = 1
          /\ calls.detail = 2 * N
          /\ calls.image = N
          /\ calls.download = N

\* the image of the second panel is rendered from a text other than the
\* one persisted in its panel file
C18_Witness ==
  /\ pc = "download"
  /\ i = 2
  /\ story[1].panels = <<[id |-> 1], [id |-> 2]>>
  /\ detailedDescription # Undefined
  /\ detailedDescription[1] # files[PanelPath(run, 2)].data.detailedVisualDescription

\* the story call of the latest run was rejected
StoryCallFailed == pc = "threw" /\ calls.story = 1 /\ story = Undefined

\* C19: a run issues at most one story call; when that call is rejected,
\* generateComic rejects with the call's error (schema validation or
\* transport), which the UI shows, and the run has made no comic directory,
\* written no file and issued no detailing, image or download call.
C19_StoryFailureStopsRun ==
  /\ calls.story <= 1
  /\ pc \notin Settled => calls.story = 1
  /\ StoryCallFailed =>
       /\ thrown # Undefined
       /\ thrown[1] \in StoryErrors
       /\ state.error = Some(thrown[1].message)
       /\ ComicDir(run) \notin dirs
       /\ FilesBy(run) = {}
       /\ \A p \in DOMAIN files : p.dir = "comic" => p.run # run
       /\ calls.detail = 0
       /\ calls.image = 0
       /\ calls.download = 0
       /\ calls.answered = 1

\* the story call of the second run failed schema validation; the files of
\* the first run are on disk
C19_Witness ==
  /\ StoryCallFailed
  /\ run = 2
  /\ thrown = Some(Error(Msg("No object generated: response did not match schema.", 0)))
  /\ ResultPath(1) \in DOMAIN files

\* C20: the prompt held by the UI is the text of the latest prompt submit
\* and the panel count the value of the latest options submit; entering
\* 'processing' schedules exactly one start of generateComic, which happens
\* only when no run is active and passes the request built from that prompt
\* and panel count; the request of a run never changes.
C20_OneRequestPerEntry ==
  /\ [](request # Undefined =>
          /\ state.step = "processing"
          /\ request[1].prompt = state.prompt
          /\ request[1].panelCount = state.panelCount)
  /\ [](effectPending => (state.step = "processing" /\ pc \in Settled))
  /\ [][/\ handlePromptSubmit => state'.prompt = state.currentInput
        /\ handleOptionsSubmit =>
             /\ state'.prompt = state.prompt
             /\ state'.panelCount = OptionsPanelCount(state.currentInput)
        /\ state'.prompt # state.prompt => (handlePromptSubmit \/ handleDoneSubmit)
        /\ state'.panelCount # state.panelCount =>
             (handleOptionsSubmit \/ handleDoneSubmit)
        /\ (state.step # "processing" /\ state'.step = "processing") => effectPending'
        /\ run' # run =>
             /\ run' = run + 1
             /\ effectPending /\ ~effectPending'
             /\ request' \in {Undefined,
                              Some([prompt |-> state.prompt,
                                    panelCount |-> state.panelCount,
                                    artStyle |-> state.artStyle,
                                    genre |-> state.genre])}
             /\ request' = Undefined => pc' = "threw"
        /\ (effectPending /\ ~effectPending') => run' = run + 1
        /\ (request # Undefined /\ request' # Undefined) => request' = request]_vars

\* the second request is in flight with the prompt and the panel count of
\* its own cycle
C20_Witness ==
  /\ run = 2
  /\ pc = "story"
  /\ request # Undefined
  /\ request[1].prompt = <<"a">>
  /\ request[1].panelCount = Num(2)

\* C21: with step 'done' exactly one of result and error is set, over any
\* number of request cycles; with step 'prompt', 'options' or 'processing'
\* both are absent.
C21_ResultXorError ==
  /\ state.step = "done" => (state.result # Undefined) # (state.error # Undefined)
  /\ state.step # "done" => (state.result = Undefined /\ state.error = Undefined)

\* the first cycle ended with a result and the second one with the error
\* of a rejected detailing call
C21_Witness ==
  /\ state.step = "done"
  /\ run = 2
  /\ ResultPath(1) \in DOMAIN files
  /\ thrown = Some(DetailError)
  /\ state.error # Undefined
  /\ state.result = Undefined

\* C22: in the image-editing UI the step is never 'image'; the step never
\* returns to 'prompt', where generationCount is 0 and which is the only
\* step whose submit is handlePromptSubmit; the done screen submits
\* straight to 'processing'; and the first generation runs with no input
\* image.
C22_ImageStepUnreachable ==
  /\ [](editor.step # "image")
  /\ [](editor.step = "prompt" => (editor.generationCount = 0 /\ started = 0))
  /\ []((started = 1 /\ prediction # Undefined) =>
          prediction[1].input_image = Undefined)
  /\ [][/\ editor.step # "prompt" => editor'.step # "prompt"
        /\ (editor.step = "done" /\ editor'.step # "done") =>
             editor'.step = "processing"
        /\ (editor_onSubmit /\ editor.step # "prompt") =>
             editor' # EditorPromptSubmitted(editor, editor.currentInput)
        /\ (editor_onSubmit /\ editor.step = "prompt") =>
             editor'.step = "processing"]_vars

\* the second generation was started from the done screen and runs on the
\* output of the first
C22_Witness ==
  /\ editor.step = "processing"
  /\ editorPc = "running"
  /\ started = 2
  /\ prediction = Some([prompt |-> <<"b">>, input_image |-> Some(Href(1))])

\* C23: in the image-editing UI every generation after the first is
\* started with input_image equal to previousOutput, which is the href of
\* the latest output replicate.run resolved to; generationCount is the
\* number of generations started (one more while the start scheduled by
\* the last submit has not run yet); once a generation was rejected the
\* error stays set, the done screen accepts no submit and no generation is
\* started.
C23_ChainsOnPreviousOutput ==
  /\ [](editor.generationCount = started + (IF editorEffect THEN 1 ELSE 0))
  /\ [](editor.previousOutput = succeeded)
  /\ [](editor.error # Undefined =>
          /\ editor.step = "done"
          /\ ~editorEffect
          /\ editorPc = "idle"
          /\ ~ENABLED editor_onSubmit)
  /\ [][/\ started' # started =>
             /\ started' = started + 1
             /\ prediction' = Some([prompt |-> editor.prompt,
                                    input_image |-> editor.imageUrl])
             /\ started >= 1 =>
                  /\ succeeded # Undefined
                  /\ prediction'[1].input_image = succeeded
                  /\ prediction'[1].input_image = editor.previousOutput
        /\ editor.error # Undefined =>
             /\ editor'.error = editor.error
             /\ started' = started]_vars

\* the third generation runs on the output of the second
C23_Witness ==
  /\ started = 3
  /\ editorPc = "running"
  /\ editor.generationCount = 3
  /\ prediction # Undefined
  /\ prediction[1].input_image = Some(Href(2))
  /\ editor.previousOutput = Some(Href(2))

====
